---- MODULE Spec2Model ----
(***************************************************************************)
(* nori-draw: the Draw class (a canvas wrapped in a container element,     *)
(* free-hand drawing with mouse and touch, setters with guard callbacks).  *)
(*                                                                         *)
(* The object and the DOM objects it owns are one record, `self'; every    *)
(* method is an operator from that record to the record after the call,    *)
(* so that the constructor can run the setters in the order _start does.   *)
(* JavaScript values are records [t, n, s]: t is the typeof tag, n the     *)
(* number (or the boolean as 0/1), s the string.  NaN is the number whose  *)
(* s is "NaN".  Numbers are integers or NaN.                                *)
(***************************************************************************)
EXTENDS Integers, Sequences, FiniteSets, TLC

VARIABLES self, pc, last, hist

vars == <<self, pc, last, hist>>

-----------------------------------------------------------------------------
(* JavaScript values                                                       *)

Num(n) == [t |-> "number", n |-> n, s |-> ""]
NaN == [t |-> "number", n |-> 0, s |-> "NaN"]
Str(x) == [t |-> "string", n |-> 0, s |-> x]
Bool(b) == [t |-> "boolean", n |-> IF b THEN 1 ELSE 0, s |-> ""]
Undefined == [t |-> "undefined", n |-> 0, s |-> ""]

TypeOf(v) == v.t
IsNaN(v) == v.t = "number" /\ v.s = "NaN"

\* ToBoolean: 0, NaN, "", false and undefined are falsy.
Truthy(v) ==
    CASE v.t = "number" -> v.n # 0 /\ v.s # "NaN"
      [] v.t = "string" -> v.s # ""
      [] v.t = "boolean" -> v.n = 1
      [] OTHER -> FALSE

\* a || d
OrElse(v, d) == IF Truthy(v) THEN v ELSE d

\* ToNumber, on the values used here: no string of the model is numeric
\* except the empty one.
ToNumber(v) ==
    CASE v.t = "number" -> v
      [] v.t = "boolean" -> Num(v.n)
      [] v.t = "string" -> IF v.s = "" THEN Num(0) ELSE NaN
      [] OTHER -> NaN

\* a - b
JsSub(a, b) ==
    LET x == ToNumber(a)
        y == ToNumber(b)
    IN  IF IsNaN(x) \/ IsNaN(y) THEN NaN ELSE Num(x.n - y.n)

\* a * b
JsMul(a, b) ==
    LET x == ToNumber(a)
        y == ToNumber(b)
    IN  IF IsNaN(x) \/ IsNaN(y) THEN NaN ELSE Num(x.n * y.n)

\* ToString
JsToString(v) ==
    CASE v.t = "number" -> IF v.s = "NaN" THEN "NaN" ELSE ToString(v.n)
      [] v.t = "string" -> v.s
      [] v.t = "boolean" -> IF v.n = 1 THEN "true" ELSE "false"
      [] OTHER -> "undefined"

\* a + b where b is a string: string concatenation
JsConcat(a, b) == Str(JsToString(a) \o JsToString(b))

\* a <= b and a > b on numbers: every comparison with NaN is false
JsLe(a, b) == ~IsNaN(a) /\ ~IsNaN(b) /\ a.n <= b.n
JsGt(a, b) == ~IsNaN(a) /\ ~IsNaN(b) /\ a.n > b.n

-----------------------------------------------------------------------------
(* regexHEX = /^#[abcdef0-9]{1,6}$/i                                        *)

\* The characters of the strings the model passes around.
Chars(x) ==
    CASE x = "#fff" -> <<"#", "f", "f", "f">>
      [] x = "#FFFFFF" -> <<"#", "F", "F", "F", "F", "F", "F">>
      [] x = "#a1B2c3" -> <<"#", "a", "1", "B", "2", "c", "3">>
      [] x = "#0" -> <<"#", "0">>
      [] x = "#cccccc" -> <<"#", "c", "c", "c", "c", "c", "c">>
      [] x = "#000000" -> <<"#", "0", "0", "0", "0", "0", "0">>
      [] x = "#" -> <<"#">>
      [] x = "#ggg" -> <<"#", "g", "g", "g">>
      [] x = "#1234567" -> <<"#", "1", "2", "3", "4", "5", "6", "7">>
      [] x = "fff" -> <<"f", "f", "f">>
      [] x = "#ff f" -> <<"#", "f", "f", " ", "f">>
      [] x = "red" -> <<"r", "e", "d">>
      [] x = "none" -> <<"n", "o", "n", "e">>
      [] OTHER -> <<>>

HexChars ==
    {"0", "1", "2", "3", "4", "5", "6", "7", "8", "9",
     "a", "b", "c", "d", "e", "f", "A", "B", "C", "D", "E", "F"}

\* the pattern with one digit more: {1,7}
regexHEXSeven(x) ==
    LET cs == Chars(x)
    IN  /\ Len(cs) >= 2
        /\ Len(cs) <= 8
        /\ cs[1] = "#"
        /\ \A i \in 2..Len(cs) : cs[i] \in HexChars

regexHEX(x) ==
    LET cs == Chars(x)
    IN  /\ Len(cs) >= 2
        /\ Len(cs) <= 7
        /\ cs[1] = "#"
        /\ \A i \in 2..Len(cs) : cs[i] \in HexChars

-----------------------------------------------------------------------------
(* The object: constructor, _start and the private steps                   *)

\* A Draw object whose constructor has not run: no field is set.
Blank ==
    [wrapper |-> FALSE, canvas |-> FALSE, ctx |-> FALSE,
     width |-> Undefined, height |-> Undefined, bg |-> Undefined,
     sizeValue |-> Undefined,
     border |-> [size |-> Undefined, color |-> Undefined, style |-> Undefined],
     lineWidth |-> Undefined, lineColor |-> Undefined,
     mouse |-> [x |-> 0, y |-> 0, mousedown |-> FALSE, cursor |-> Undefined],
     drawCallback |-> FALSE, listening |-> FALSE,
     \* wrapper.style and the canvas element
     wrapperStyle |-> [boxSizing |-> Str(""), display |-> Str(""),
                       width |-> Str(""), height |-> Str(""),
                       borderWidth |-> Str(""), borderColor |-> Str(""),
                       borderStyle |-> Str("")],
     canvasWidth |-> Undefined, canvasHeight |-> Undefined,
     canvasStyle |-> [backgroundColor |-> Str(""), cursor |-> Str("")],
     \* the 2d context: current path and drawing attributes
     path |-> <<>>, strokeStyle |-> Undefined, ctxLineWidth |-> Undefined,
     fillStyle |-> Undefined,
     \* what the object has asked of the platform so far
     strokes |-> 0, fills |-> 0, callbacks |-> 0, segment |-> <<>>,
     \* the number of stroke() calls made when drawCallback last ran
     callbackSaw |-> 0,
     \* the rectangle of the latest clearRect(0, 0, w, h)
     cleared |-> <<>>,
     warnings |-> 0, threw |-> FALSE]

\* constructor, the field assignments before _start()
Fields(wrapper, options) ==
    [Blank EXCEPT
       !.wrapper = wrapper,
       !.width = OrElse(options.width, Num(500)),
       !.height = OrElse(options.height, Num(500)),
       !.bg = OrElse(options.bg, Str("#cccccc")),
       !.sizeValue = OrElse(options.sizeValue, Str("px")),
       !.border = [size |-> OrElse(options.borderWidth, Num(0)),
                   color |-> OrElse(options.borderColor, Str("none")),
                   style |-> OrElse(options.borderStyle, Str("none"))],
       !.lineWidth = OrElse(options.lineWidth, Num(1)),
       !.lineColor = OrElse(options.lineColor, Str("#000000")),
       !.mouse = [x |-> 0, y |-> 0, mousedown |-> FALSE,
                  cursor |-> OrElse(options.cursor, Str("crosshair"))]]

\* A new canvas element is 300 x 150.
_createCanvas(s) ==
    IF ~s.wrapper
    THEN [s EXCEPT !.warnings = @ + 1]
    ELSE [s EXCEPT !.wrapperStyle.boxSizing = Str("border-box"),
                   !.wrapperStyle.display = Str("flex"),
                   !.canvas = TRUE,
                   !.canvasWidth = Num(300),
                   !.canvasHeight = Num(150)]

\* getContext("2d") returns a context (got) or null.  A new context has an
\* empty path, black stroke and fill styles and line width 1.
_createContext(s, got) ==
    IF ~s.canvas
    THEN [s EXCEPT !.warnings = @ + 1]
    ELSE IF ~got
    THEN [s EXCEPT !.warnings = @ + 1]
    ELSE [s EXCEPT !.ctx = TRUE,
                   !.path = <<>>,
                   !.strokeStyle = Str("#000000"),
                   !.fillStyle = Str("#000000"),
                   !.ctxLineWidth = Num(1)]

\* ctx.beginPath()
beginPath(s) == IF s.ctx THEN [s EXCEPT !.path = <<>>] ELSE s

-----------------------------------------------------------------------------
(* Setters.  guard is what the callback returns.                           *)

\* setMouseCursor storing any cursor name it is given
setMouseCursorAsGiven(s, value, guard) ==
    IF ~guard THEN s
    ELSE IF ~s.canvas THEN s
    ELSE [s EXCEPT !.mouse.cursor = value,
                   !.canvasStyle.cursor = value]

setMouseCursor(s, value, guard) ==
    IF ~guard THEN s
    ELSE LET cursor == IF value \in {Str("default"), Str("crosshair"), Str("pointer")}
                       THEN value
                       ELSE Str("crosshair")
         IN  IF ~s.canvas THEN s
             ELSE [s EXCEPT !.mouse.cursor = cursor,
                            !.canvasStyle.cursor = cursor]

\* setWidth taking the border off once, not on both sides
setWidthOneBorder(s, value, guard) ==
    IF ~guard THEN s
    ELSE LET s1 == IF s.canvas
                   THEN [s EXCEPT !.canvasWidth = JsSub(value, s.border.size)]
                   ELSE s
         IN  IF ~s1.wrapper
             THEN [s1 EXCEPT !.threw = TRUE]
             ELSE [s1 EXCEPT !.wrapperStyle.width = JsConcat(value, s.sizeValue)]

setWidth(s, value, guard) ==
    IF ~guard THEN s
    ELSE LET s1 == IF s.canvas
                   THEN [s EXCEPT !.canvasWidth = JsSub(value, JsMul(s.border.size, Num(2)))]
                   ELSE s
         IN  IF ~s1.wrapper
             THEN [s1 EXCEPT !.threw = TRUE]
             ELSE [s1 EXCEPT !.wrapperStyle.width = JsConcat(value, s.sizeValue)]

setHeight(s, value, guard) ==
    IF ~guard THEN s
    ELSE LET s1 == IF s.canvas
                   THEN [s EXCEPT !.canvasHeight = JsSub(value, JsMul(s.border.size, Num(2)))]
                   ELSE s
         IN  IF ~s1.wrapper
             THEN [s1 EXCEPT !.threw = TRUE]
             ELSE [s1 EXCEPT !.wrapperStyle.height = JsConcat(value, s.sizeValue)]

setBg(s, value, guard) ==
    IF ~guard THEN s
    ELSE IF TypeOf(value) # "string" THEN s
    ELSE IF ~regexHEX(value.s) THEN s
    ELSE IF s.canvas
    THEN [s EXCEPT !.canvasStyle.backgroundColor = value]
    ELSE s

\* setBorderSize storing the size before it asks the callback
setBorderSizeEager(s, value, guard, client) ==
    IF TypeOf(value) # "number" THEN s
    ELSE LET s1 == [s EXCEPT !.border.size = value]
         IN  IF ~guard THEN s1
             ELSE [s1 EXCEPT !.wrapperStyle.borderWidth = JsConcat(value, Str("px")),
                             !.canvasWidth = Num(client[1]),
                             !.canvasHeight = Num(client[2])]

\* client is <<wrapper.clientWidth, wrapper.clientHeight>>, which the
\* layout of the page decides.
setBorderSize(s, value, guard, client) ==
    IF ~guard THEN s
    ELSE IF TypeOf(value) # "number" THEN s
    ELSE LET s1 == [s EXCEPT !.border.size = value]
             s2 == IF s1.border.style = Str("none")
                   THEN [s1 EXCEPT !.border.style = Str("solid")]
                   ELSE s1
         IN  IF ~s2.wrapper THEN s2
             ELSE LET s3 == [s2 EXCEPT !.wrapperStyle.borderWidth =
                                          JsConcat(s2.border.size, Str("px"))]
                  IN  IF ~s3.canvas THEN s3
                      ELSE [s3 EXCEPT !.canvasWidth = Num(client[1]),
                                      !.canvasHeight = Num(client[2])]

\* setBorderColor forcing the style to "solid" whatever it was
setBorderColorAlwaysSolid(s, value, guard) ==
    IF ~guard THEN s
    ELSE IF TypeOf(value) # "string" THEN s
    ELSE IF ~regexHEX(value.s) THEN s
    ELSE [s EXCEPT !.border.color = value,
                   !.border.style = Str("solid"),
                   !.wrapperStyle.borderColor = value]

setBorderColor(s, value, guard) ==
    IF ~guard THEN s
    ELSE IF TypeOf(value) # "string" THEN s
    ELSE IF ~regexHEX(value.s) THEN s
    ELSE LET s1 == [s EXCEPT !.border.color = value]
             s2 == IF s1.border.style = Str("none")
                   THEN [s1 EXCEPT !.border.style = Str("solid")]
                   ELSE s1
         IN  IF s2.wrapper
             THEN [s2 EXCEPT !.wrapperStyle.borderColor = s2.border.color]
             ELSE s2

setBorderStyle(s, value, guard) ==
    IF ~guard THEN s
    ELSE IF TypeOf(value) # "string" THEN s
    ELSE LET s1 == [s EXCEPT !.border.style = value]
         IN  IF s1.wrapper
             THEN [s1 EXCEPT !.wrapperStyle.borderStyle = s1.border.style]
             ELSE s1

\* setMouseDown taking any value for its truth
setMouseDownTruthy(s, value, guard) ==
    IF ~guard THEN s
    ELSE IF value = Undefined
    THEN [s EXCEPT !.mouse.mousedown = ~s.mouse.mousedown]
    ELSE [s EXCEPT !.mouse.mousedown = Truthy(value)]

setMouseDown(s, value, guard) ==
    IF ~guard THEN s
    ELSE LET s1 == IF value = Undefined
                   THEN [s EXCEPT !.mouse.mousedown = ~s.mouse.mousedown]
                   ELSE s
         IN  IF TypeOf(value) = "boolean"
             THEN [s1 EXCEPT !.mouse.mousedown = (value.n = 1)]
             ELSE s1

\* setLineWidth storing 1 for a value that is not a number
setLineWidthCoerce(s, value, guard) ==
    IF ~guard THEN s
    ELSE IF TypeOf(value) # "number" THEN [s EXCEPT !.lineWidth = Num(1)]
    ELSE [s EXCEPT !.lineWidth = IF JsLe(value, Num(0)) THEN Num(1)
                                 ELSE IF JsGt(value, Num(10)) THEN Num(10)
                                 ELSE value]

\* setLineWidth with the lower clamp at value < 0
setLineWidthBelowZero(s, value, guard) ==
    IF ~guard THEN s
    ELSE IF TypeOf(value) # "number" THEN s
    ELSE [s EXCEPT !.lineWidth = IF ~IsNaN(value) /\ value.n < 0 THEN Num(1)
                                 ELSE IF JsGt(value, Num(10)) THEN Num(10)
                                 ELSE value]

setLineWidth(s, value, guard) ==
    IF ~guard THEN s
    ELSE IF TypeOf(value) # "number" THEN s
    ELSE [s EXCEPT !.lineWidth = IF JsLe(value, Num(0)) THEN Num(1)
                                 ELSE IF JsGt(value, Num(10)) THEN Num(10)
                                 ELSE value]

\* setLineColor storing the colour without beginning a new path
setLineColorKeepsPath(s, value, guard) ==
    IF ~guard THEN s
    ELSE IF TypeOf(value) # "string" THEN s
    ELSE IF ~regexHEX(value.s) THEN s
    ELSE [s EXCEPT !.lineColor = value]

setLineColor(s, value, guard) ==
    IF ~guard THEN s
    ELSE IF TypeOf(value) # "string" THEN s
    ELSE IF ~regexHEX(value.s) THEN s
    ELSE beginPath([s EXCEPT !.lineColor = value])

addCallbackToDraw(s) == [s EXCEPT !.drawCallback = TRUE]

\* What each setter hands to its callback: callback(this.width),
\* callback(this.border.size) and so on.
callbackArg(s, op) ==
    CASE op = "setMouseCursor" -> s.mouse.cursor
      [] op = "setWidth" -> s.width
      [] op = "setHeight" -> s.height
      [] op = "setBg" -> s.bg
      [] op = "setBorderSize" -> s.border.size
      [] op = "setBorderColor" -> s.border.color
      [] op = "setBorderStyle" -> s.border.style
      [] op = "setMouseDown" -> Bool(s.mouse.mousedown)
      [] op = "setLineWidth" -> s.lineWidth
      [] op = "setLineColor" -> s.lineColor
      [] OTHER -> Undefined

-----------------------------------------------------------------------------
(* Getters                                                                 *)

getBackground(s) == s.bg
getLineColor(s) == s.lineColor
getLineWidth(s) == s.lineWidth
getBorder(s, value) ==
    IF value \notin {"size", "color", "style"} THEN Undefined
    ELSE s.border[value]

clearAll(s) ==
    IF ~s.ctx THEN s
    ELSE [s EXCEPT !.cleared = <<[w |-> s.width, h |-> s.height]>>]

\* canvas.toDataURL(type, 0.5): the bitmap encoded as a data URL of the type
\* asked for, and "data:," for a canvas without pixels.
toDataURL(s, type) ==
    IF s.canvasWidth = Num(0) \/ s.canvasHeight = Num(0)
    THEN Str("data:,")
    ELSE JsConcat(Str("data:"), JsConcat(type, Str(";base64,")))

\* getImageB64 handing toDataURL the format it was given, whatever it is
getImageB64AsGiven(s, format) ==
    LET given == IF format = Undefined THEN Str("png") ELSE format
    IN  IF ~s.canvas \/ ~s.ctx \/ TypeOf(given) # "string"
        THEN [type |-> Undefined, returned |-> Undefined]
        ELSE LET type == JsConcat(Str("image/"), given)
                 imageString == toDataURL(s, type)
             IN  [type |-> type,
                  returned |-> IF Truthy(imageString) THEN imageString ELSE Undefined]

\* The format parameter defaults to "png" when the argument is undefined.
\* The result is the type handed to toDataURL (undefined when it is not
\* called) and the value returned.
getImageB64(s, format) ==
    LET given == IF format = Undefined THEN Str("png") ELSE format
    IN  IF ~s.canvas \/ ~s.ctx \/ TypeOf(given) # "string"
        THEN [type |-> Undefined, returned |-> Undefined]
        ELSE LET imageFormat == IF given \in {Str("png"), Str("jpeg")}
                                THEN given ELSE Str("png")
                 type == JsConcat(Str("image/"), imageFormat)
                 imageString == toDataURL(s, type)
             IN  [type |-> type,
                  returned |-> IF Truthy(imageString) THEN imageString ELSE Undefined]

-----------------------------------------------------------------------------
(* Pointer events and drawing                                              *)

\* An event is [type, offsetX, offsetY, touches, changedTouches]: a
\* MouseEvent carries its position in the canvas, a TouchEvent the list of
\* the touch points still on the surface and the list of those that changed.
getCords(event) ==
    IF event.type = "mouse"
    THEN [defined |-> TRUE, x |-> event.offsetX, y |-> event.offsetY]
    ELSE IF event.type = "touch" /\ Len(event.touches) >= 1
    THEN [defined |-> TRUE, x |-> event.touches[1][1], y |-> event.touches[1][2]]
    ELSE [defined |-> FALSE, x |-> 0, y |-> 0]

\* called by the listeners with the default callback
_setCords(s, event) ==
    LET cords == getCords(event)
    IN  IF ~cords.defined THEN s
        ELSE [s EXCEPT !.mouse.x = cords.x, !.mouse.y = cords.y]

\* ctx.lineWidth = value: the context keeps its width when the value, as a
\* number, is NaN, zero or negative.
ctxLineWidth(s, value) ==
    IF JsGt(ToNumber(value), Num(0)) THEN ToNumber(value) ELSE s.ctxLineWidth

\* ctx.lineTo(p): on an empty path it only sets the start point.
lineTo(path, p) == IF path = <<>> THEN <<p>> ELSE Append(path, p)

\* _drawLine without the test of mouse.mousedown
_drawLineUnpressed(s) ==
    IF ~s.ctx THEN s
    ELSE LET p == <<s.mouse.x, s.mouse.y>>
         IN  [s EXCEPT !.strokes = @ + 1,
                       !.segment = <<[path |-> lineTo(s.path, p),
                                      style |-> s.strokeStyle,
                                      width |-> s.ctxLineWidth]>>,
                       !.strokeStyle = s.lineColor,
                       !.ctxLineWidth = ctxLineWidth(s, s.lineWidth),
                       !.path = <<p>>]

\* _drawLine without the test of the context
_drawLineWithoutContext(s) ==
    IF ~s.mouse.mousedown THEN s
    ELSE LET p == <<s.mouse.x, s.mouse.y>>
             line == lineTo(s.path, p)
             s1 == [s EXCEPT !.path = line,
                             !.strokes = @ + 1,
                             !.segment = <<[path |-> line,
                                            style |-> s.strokeStyle,
                                            width |-> s.ctxLineWidth]>>]
             s2 == [s1 EXCEPT !.strokeStyle = s.lineColor,
                              !.ctxLineWidth = ctxLineWidth(s, s.lineWidth)]
             s3 == IF JsGt(ToNumber(s2.lineWidth), Num(1))
                   THEN [s2 EXCEPT !.fillStyle = s2.lineColor,
                                   !.fills = @ + 1]
                   ELSE s2
             s4 == [s3 EXCEPT !.path = <<p>>]
         IN  IF s4.drawCallback
             THEN [s4 EXCEPT !.callbacks = @ + 1, !.callbackSaw = s4.strokes]
             ELSE s4

\* _drawLine running drawCallback on every move, pressed or not
_drawLineCallbackAnyMove(s) ==
    IF ~s.ctx THEN s
    ELSE IF ~s.mouse.mousedown
    THEN (IF s.drawCallback
          THEN [s EXCEPT !.callbacks = @ + 1, !.callbackSaw = s.strokes]
          ELSE s)
    ELSE LET p == <<s.mouse.x, s.mouse.y>>
             line == lineTo(s.path, p)
             s1 == [s EXCEPT !.path = line,
                             !.strokes = @ + 1,
                             !.segment = <<[path |-> line,
                                            style |-> s.strokeStyle,
                                            width |-> s.ctxLineWidth]>>]
             s2 == [s1 EXCEPT !.strokeStyle = s.lineColor,
                              !.ctxLineWidth = ctxLineWidth(s, s.lineWidth)]
             s3 == IF JsGt(ToNumber(s2.lineWidth), Num(1))
                   THEN [s2 EXCEPT !.fillStyle = s2.lineColor,
                                   !.fills = @ + 1]
                   ELSE s2
             s4 == [s3 EXCEPT !.path = <<p>>]
         IN  IF s4.drawCallback
             THEN [s4 EXCEPT !.callbacks = @ + 1, !.callbackSaw = s4.strokes]
             ELSE s4

\* stroke() paints the current path with the context's strokeStyle and
\* lineWidth as they are at the call; segment records what it was given.
_drawLine(s) ==
    IF ~s.ctx \/ ~s.mouse.mousedown THEN s
    ELSE LET p == <<s.mouse.x, s.mouse.y>>
             line == lineTo(s.path, p)
             s1 == [s EXCEPT !.path = line,
                             !.strokes = @ + 1,
                             !.segment = <<[path |-> line,
                                            style |-> s.strokeStyle,
                                            width |-> s.ctxLineWidth]>>]
             s2 == [s1 EXCEPT !.strokeStyle = s.lineColor,
                              !.ctxLineWidth = ctxLineWidth(s, s.lineWidth)]
             s3 == IF JsGt(ToNumber(s2.lineWidth), Num(1))
                   THEN [s2 EXCEPT !.fillStyle = s2.lineColor,
                                   !.fills = @ + 1]
                   ELSE s2
             s4 == [s3 EXCEPT !.path = <<p>>]
         IN  IF s4.drawCallback
             THEN [s4 EXCEPT !.callbacks = @ + 1, !.callbackSaw = s4.strokes]
             ELSE s4

\* _addListeners registers the listeners below only when the canvas exists.
_addListeners(s) == IF ~s.canvas THEN s ELSE [s EXCEPT !.listening = TRUE]

\* mousedown starting a new path as touchstart does
mousedownNewPath(s, event) == setMouseDown(_setCords(beginPath(s), event), Bool(TRUE), TRUE)

mousedown(s, event) == setMouseDown(_setCords(s, event), Bool(TRUE), TRUE)
mouseup(s, event) == beginPath(setMouseDown(_setCords(s, event), Bool(FALSE), TRUE))
\* mousemove drawing without storing where the pointer is
mousemoveStaleCords(s, event) == _drawLine(s)

mousemove(s, event) == _drawLine(_setCords(s, event))
mouseleave(s, event) == beginPath(setMouseDown(_setCords(s, event), Bool(FALSE), TRUE))
touchstart(s, event) == setMouseDown(_setCords(beginPath(s), event), Bool(TRUE), TRUE)
touchmove(s, event) == _drawLine(_setCords(s, event))
touchend(s, event) == beginPath(setMouseDown(_setCords(s, event), Bool(FALSE), TRUE))

-----------------------------------------------------------------------------
(* Construction                                                            *)

\* The statements of _start, each run on the object the one before left.  A
\* statement that throws (setWidth and setHeight do, without a wrapper) ends
\* _start there: the ones after it are not run.
startSetWidth(s) == IF s.threw THEN s ELSE setWidth(s, s.width, TRUE)
startSetHeight(s) == IF s.threw THEN s ELSE setHeight(s, s.height, TRUE)
startSetBg(s) == IF s.threw THEN s ELSE setBg(s, s.bg, TRUE)
startSetBorderColor(s) == IF s.threw THEN s ELSE setBorderColor(s, s.border.color, TRUE)
startSetBorderSize(s, client) ==
    IF s.threw THEN s ELSE setBorderSize(s, s.border.size, TRUE, client)
startSetBorderStyle(s) == IF s.threw THEN s ELSE setBorderStyle(s, s.border.style, TRUE)
startSetMouseCursor(s) == IF s.threw THEN s ELSE setMouseCursor(s, s.mouse.cursor, TRUE)
startSetLineColor(s) == IF s.threw THEN s ELSE setLineColor(s, s.lineColor, TRUE)
startSetLineWidth(s) == IF s.threw THEN s ELSE setLineWidth(s, s.lineWidth, TRUE)
startAddListeners(s) == IF s.threw THEN s ELSE _addListeners(s)
startCreateContext(s, got) == IF s.threw THEN s ELSE _createContext(s, got)

\* client: the layout of the wrapper when setBorderSize reads it;
\* got: whether getContext("2d") gives a context.
_start(s, client, got) ==
    startCreateContext(
     startAddListeners(
      startSetLineWidth(
       startSetLineColor(
        startSetMouseCursor(
         startSetBorderStyle(
          startSetBorderSize(
           startSetBorderColor(
            startSetBg(
             startSetHeight(
              startSetWidth(
               _createCanvas(s))))),
           client)))))),
     got)

constructor(wrapper, options, client, got) ==
    _start(Fields(wrapper, options), client, got)

-----------------------------------------------------------------------------
(* Bounds and inputs                                                       *)

MaxCalls == 2
MaxEvents == 4
MaxDrawCalls == 1
MaxSizeCalls == 3
MaxOutputCalls == 3

NoOptions ==
    [width |-> Undefined, height |-> Undefined, sizeValue |-> Undefined,
     bg |-> Undefined, lineColor |-> Undefined, lineWidth |-> Undefined,
     cursor |-> Undefined, borderWidth |-> Undefined,
     borderColor |-> Undefined, borderStyle |-> Undefined]

\* the options object of the README
ReadmeOptions ==
    [width |-> Num(500), height |-> Num(500), sizeValue |-> Str("px"),
     bg |-> Str("#FFFFFF"), lineColor |-> Str("#FFFFFF"), lineWidth |-> Num(1),
     cursor |-> Str("default"), borderWidth |-> Num(1),
     borderColor |-> Str("#FFFFFF"), borderStyle |-> Str("solid")]

\* the construction of the specification's scenario
ScenarioOptions ==
    [NoOptions EXCEPT !.width = Num(300), !.height = Num(200), !.lineWidth = Num(15)]

\* options of the wrong kind
BadOptions ==
    [NoOptions EXCEPT !.bg = Str("red"), !.lineColor = Str("red"),
                      !.borderColor = Str("red"), !.cursor = Str("wait"),
                      !.sizeValue = Str("%"), !.lineWidth = Str("abc")]

OptionSets == {NoOptions, ReadmeOptions, ScenarioOptions, BadOptions}

DrawOptionSets == {NoOptions, ScenarioOptions}
ClientSizes == {<<0, 0>>, <<290, 190>>}
WidthArgs == {Num(300), Num(640)}
HeightArgs == {Num(200), Num(480)}
ColorArgs ==
    {Str("#fff"), Str("#a1B2c3"), Str("#0"),
     Str("#"), Str("#ggg"), Str("#1234567"), Str("fff"), Str("red"),
     Num(5), Undefined}
LineColorArgs == {Str("#fff"), Str("#a1B2c3"), Str("#ggg"), Str("fff"), Num(5)}
LineWidthArgs ==
    {Num(-3), Num(0), Num(1), Num(5), Num(10), Num(11), NaN, Str("abc")}
BorderSizeArgs == {Num(0), Num(5), Num(-3), Str("5"), Undefined}
BorderStyleArgs == {Str("dashed"), Str("none"), Num(1)}
CursorArgs == {Str("default"), Str("pointer"), Str("crosshair"), Str("wait"), Undefined}
MouseDownArgs == {Bool(TRUE), Bool(FALSE), Undefined, Str("yes")}
\* formats asked of getImageB64; undefined is the argument left out
FormatArgs == {Undefined, Str("png"), Str("jpeg"), Str("gif"), Num(5)}
Points == {<<1, 2>>, <<3, 4>>}
MouseEvents ==
    {[type |-> "mouse", offsetX |-> p[1], offsetY |-> p[2], touches |-> <<>>,
      changedTouches |-> <<>>] : p \in Points}
\* touchstart and touchmove: the finger that changed is on the surface
TouchEvents ==
    {[type |-> "touch", offsetX |-> 0, offsetY |-> 0, touches |-> <<p>>,
      changedTouches |-> <<p>>] : p \in Points}
\* touchend: the finger lifted is no longer among the touches; either it was
\* the only one or another finger stays down
TouchEndEvents ==
    {[type |-> "touch", offsetX |-> 0, offsetY |-> 0, touches |-> ts,
      changedTouches |-> <<p>>] :
        p \in Points, ts \in {<<>>, <<<<1, 2>>>>}}
\* where the event happened: the pointer, the first finger down, or the
\* finger lifted when none is down
EventPoint(event) ==
    IF event.type = "mouse" THEN <<event.offsetX, event.offsetY>>
    ELSE IF event.touches # <<>> THEN event.touches[1]
    ELSE event.changedTouches[1]

-----------------------------------------------------------------------------
(* The state machine.  self is the object; pc is "new" before the          *)
(* constructor has run, "ready" once it has returned and "threw" when it   *)
(* raised; last is the call or event just handled; hist records what has   *)
(* happened: the numbers of calls and events, the options given to the     *)
(* constructor, the moves received while pressed with a context, whether a *)
(* press event or an accepted setMouseDown call has occurred, the argument *)
(* of the latest accepted setBorderSize, and the border style before the   *)
(* latest call or event, the argument the callback of the latest call was  *)
(* given (seen), and the width, height and background that construction or *)
(* the latest accepted setWidth, setHeight and setBg established (est),    *)
(* what getImageB64 did when it was the latest call (image), and the moves *)
(* received while pressed, with a context and with drawCallback set        *)
(* (drawsRegistered), and where the latest event happened (point).         *)

Init ==
    /\ self = Blank
    /\ pc = "new"
    /\ last = [op |-> "none", arg |-> Undefined, guard |-> TRUE]
    /\ hist = [calls |-> 0, events |-> 0, options |-> NoOptions,
               movesPressed |-> 0, pressed |-> FALSE, setPressed |-> FALSE,
               borderSize |-> <<>>, style |-> Undefined,
               seen |-> Undefined, drawsRegistered |-> 0, point |-> <<0, 0>>,
               image |-> [type |-> Undefined, returned |-> Undefined],
               est |-> [width |-> Undefined, height |-> Undefined, bg |-> Undefined]]

\* new Draw(wrapper, options)
Constructed(wrapper, options, client, got) ==
    /\ pc = "new"
    /\ self' = constructor(wrapper, options, client, got)
    /\ pc' = IF self'.threw THEN "threw" ELSE "ready"
    /\ last' = [op |-> "new", arg |-> Undefined, guard |-> TRUE]
    /\ hist' = [hist EXCEPT
                  !.options = options,
                  !.est = [width |-> OrElse(options.width, Num(500)),
                           height |-> OrElse(options.height, Num(500)),
                           bg |-> OrElse(options.bg, Str("#cccccc"))],
                  !.borderSize =
                      IF ~self'.threw /\ TypeOf(self'.border.size) = "number"
                      THEN <<self'.border.size>> ELSE <<>>]

\* Construction by the host, with or without a wrapper element.
Construct ==
    \E wrapper \in BOOLEAN, options \in OptionSets, client \in ClientSizes,
       got \in BOOLEAN :
       Constructed(wrapper, options, client, got)

\* Construction on a page that is laid out, for drawing.
Open ==
    \E options \in DrawOptionSets, got \in BOOLEAN :
       Constructed(TRUE, options, <<290, 190>>, got)

\* A call of a public method by the host: op(arg, callback) with a
\* callback that returns guard.
Call(op, arg, guard, next) ==
    /\ pc = "ready"
    /\ self' = next
    /\ last' = [op |-> op, arg |-> arg, guard |-> guard]
    /\ pc' = IF next.threw THEN "threw" ELSE pc
    /\ hist' = [hist EXCEPT
                  !.calls = @ + 1,
                  !.setPressed = @ \/ (op = "setMouseDown" /\ guard),
                  !.style = self.border.style,
                  !.borderSize = IF op = "setBorderSize" /\ guard /\ TypeOf(arg) = "number"
                                 THEN <<arg>> ELSE @,
                  !.seen = callbackArg(self, op),
                  !.image = IF op = "getImageB64" THEN getImageB64(self, arg)
                            ELSE [type |-> Undefined, returned |-> Undefined],
                  !.est = [width |-> IF op = "setWidth" /\ guard THEN arg ELSE @.width,
                           height |-> IF op = "setHeight" /\ guard THEN arg ELSE @.height,
                           bg |-> IF op = "setBg" /\ guard /\ TypeOf(arg) = "string"
                                     /\ regexHEX(arg.s)
                                  THEN arg ELSE @.bg]]

SetWidth == \E v \in WidthArgs, g \in BOOLEAN : Call("setWidth", v, g, setWidth(self, v, g))
SetHeight == \E v \in HeightArgs, g \in BOOLEAN : Call("setHeight", v, g, setHeight(self, v, g))
SetBg == \E v \in ColorArgs, g \in BOOLEAN : Call("setBg", v, g, setBg(self, v, g))
SetLineColor ==
    \E v \in LineColorArgs, g \in BOOLEAN : Call("setLineColor", v, g, setLineColor(self, v, g))
SetLineWidth ==
    \E v \in LineWidthArgs, g \in BOOLEAN : Call("setLineWidth", v, g, setLineWidth(self, v, g))
SetMouseCursor ==
    \E v \in CursorArgs, g \in BOOLEAN : Call("setMouseCursor", v, g, setMouseCursor(self, v, g))
SetBorderSize ==
    \E v \in BorderSizeArgs, g \in BOOLEAN, client \in ClientSizes :
        Call("setBorderSize", v, g, setBorderSize(self, v, g, client))
SetBorderColor ==
    \E v \in ColorArgs, g \in BOOLEAN : Call("setBorderColor", v, g, setBorderColor(self, v, g))
SetBorderStyle ==
    \E v \in BorderStyleArgs, g \in BOOLEAN : Call("setBorderStyle", v, g, setBorderStyle(self, v, g))
SetMouseDown ==
    \E v \in MouseDownArgs, g \in BOOLEAN : Call("setMouseDown", v, g, setMouseDown(self, v, g))
AddCallbackToDraw ==
    /\ ~self.drawCallback
    /\ Call("addCallbackToDraw", Undefined, TRUE, addCallbackToDraw(self))
GetImageB64 == \E f \in FormatArgs : Call("getImageB64", f, TRUE, self)
ClearAll == Call("clearAll", Undefined, TRUE, clearAll(self))

\* An event dispatched to the canvas.
Event(op, event, next) ==
    /\ pc = "ready"
    /\ self.listening
    /\ hist.events < MaxEvents
    /\ self' = next
    /\ last' = [op |-> op, arg |-> Undefined, guard |-> TRUE]
    /\ pc' = pc
    /\ hist' = [hist EXCEPT
                  !.events = @ + 1,
                  !.point = EventPoint(event),
                  !.pressed = @ \/ op \in {"mousedown", "touchstart"},
                  !.style = self.border.style,
                  !.image = [type |-> Undefined, returned |-> Undefined],
                  !.seen = IF op \in {"mousemove", "touchmove"} THEN Undefined
                           ELSE callbackArg(self, "setMouseDown"),
                  !.movesPressed =
                      IF op \in {"mousemove", "touchmove"} /\ self.ctx /\ self.mouse.mousedown
                      THEN @ + 1 ELSE @,
                  !.drawsRegistered =
                      IF /\ op \in {"mousemove", "touchmove"}
                         /\ self.ctx /\ self.mouse.mousedown /\ self.drawCallback
                      THEN @ + 1 ELSE @]

MouseDown == \E e \in MouseEvents : Event("mousedown", e, mousedown(self, e))
MouseUp == \E e \in MouseEvents : Event("mouseup", e, mouseup(self, e))
MouseMove == \E e \in MouseEvents : Event("mousemove", e, mousemove(self, e))
MouseLeave == \E e \in MouseEvents : Event("mouseleave", e, mouseleave(self, e))
TouchStart == \E e \in TouchEvents : Event("touchstart", e, touchstart(self, e))
TouchMove == \E e \in TouchEvents : Event("touchmove", e, touchmove(self, e))
TouchEnd == \E e \in TouchEndEvents : Event("touchend", e, touchend(self, e))

\* The host configures the surface: construction and the public setters.
Next ==
    \/ Construct
    \/ hist.calls < MaxCalls /\ SetWidth
    \/ hist.calls < MaxCalls /\ SetHeight
    \/ hist.calls < MaxCalls /\ SetBg
    \/ hist.calls < MaxCalls /\ SetLineColor
    \/ hist.calls < MaxCalls /\ SetLineWidth
    \/ hist.calls < MaxCalls /\ SetMouseCursor
    \/ hist.calls < MaxCalls /\ SetBorderSize
    \/ hist.calls < MaxCalls /\ SetBorderColor
    \/ hist.calls < MaxCalls /\ SetBorderStyle
    \/ hist.calls < MaxCalls /\ SetMouseDown
    \/ hist.calls < MaxCalls /\ AddCallbackToDraw

Spec == Init /\ [][Next]_vars

\* The user draws: construction, pointer and touch events, and the calls
\* that act on drawing.
NextPointer ==
    \/ Open
    \/ MouseDown
    \/ MouseUp
    \/ MouseMove
    \/ MouseLeave
    \/ TouchStart
    \/ TouchMove
    \/ TouchEnd
    \/ hist.calls < MaxDrawCalls /\ SetMouseDown
    \/ hist.calls < MaxDrawCalls /\ SetLineColor
    \/ hist.calls < MaxDrawCalls /\ SetLineWidth
    \/ hist.calls < MaxDrawCalls /\ AddCallbackToDraw
    \/ hist.calls < MaxDrawCalls /\ ClearAll
    \/ hist.calls < MaxDrawCalls /\ GetImageB64

SpecPointer == Init /\ [][NextPointer]_vars

\* The host lays the surface out: construction, size and border.
NextSize ==
    \/ Construct
    \/ hist.calls < MaxSizeCalls /\ SetWidth
    \/ hist.calls < MaxSizeCalls /\ SetHeight
    \/ hist.calls < MaxSizeCalls /\ SetBorderSize
    \/ hist.calls < MaxSizeCalls /\ SetBorderColor
    \/ hist.calls < MaxSizeCalls /\ SetBorderStyle

SpecSize == Init /\ [][NextSize]_vars

\* The host resizes the surface and reads it out.
NextOutput ==
    \/ Construct
    \/ hist.calls < MaxOutputCalls /\ SetWidth
    \/ hist.calls < MaxOutputCalls /\ SetHeight
    \/ hist.calls < MaxOutputCalls /\ GetImageB64
    \/ hist.calls < MaxOutputCalls /\ ClearAll

SpecOutput == Init /\ [][NextOutput]_vars

-----------------------------------------------------------------------------
(* Properties                                                              *)

Setters ==
    {"setWidth", "setHeight", "setBg", "setLineColor", "setLineWidth",
     "setMouseCursor", "setBorderSize", "setBorderColor", "setBorderStyle",
     "setMouseDown"}

\* A string of '#' followed by 1 to 6 hexadecimal digits, in either case.
LowerCase(c) ==
    CASE c = "A" -> "a" [] c = "B" -> "b" [] c = "C" -> "c"
      [] c = "D" -> "d" [] c = "E" -> "e" [] c = "F" -> "f"
      [] OTHER -> c

IsHexColor(v) ==
    /\ v.t = "string"
    /\ LET cs == Chars(v.s)
       IN  /\ cs # <<>>
           /\ Head(cs) = "#"
           /\ Len(Tail(cs)) \in 1..6
           /\ \A i \in 1..Len(Tail(cs)) :
                 LowerCase(Tail(cs)[i]) \in
                     {"0", "1", "2", "3", "4", "5", "6", "7", "8", "9",
                      "a", "b", "c", "d", "e", "f"}

\* C1: a setter whose callback returns false leaves the whole state of the
\* object, the canvas, the wrapper styles and the path as it was.
GuardFalseChangesNothing ==
    [][(last'.op \in Setters /\ ~last'.guard) => self' = self]_vars

\* setBorderSize(5) was called with a callback returning false on a surface
\* whose border size is 0.
GuardFalseWitness ==
    /\ pc = "ready"
    /\ last = [op |-> "setBorderSize", arg |-> Num(5), guard |-> FALSE]
    /\ self.border.size = Num(0)

\* C2: after setLineWidth(v) with a number v and a passing callback the
\* stored width is 1 when v <= 0, 10 when v > 10 and v otherwise.
StrokeWidthClamp ==
    (last.op = "setLineWidth" /\ last.guard /\ TypeOf(last.arg) = "number")
    => LET v == last.arg
       IN  self.lineWidth =
               IF ~IsNaN(v) /\ v.n <= 0 THEN Num(1)
               ELSE IF ~IsNaN(v) /\ v.n > 10 THEN Num(10)
               ELSE v

\* setLineWidth(11) has stored 10 on a surface constructed with width 1.
StrokeWidthClampWitness ==
    /\ hist.options = NoOptions
    /\ last = [op |-> "setLineWidth", arg |-> Num(11), guard |-> TRUE]
    /\ self.lineWidth = Num(10)

\* C3, as claimed: after setLineWidth(v) with a v that is not a number and
\* a passing callback the stored width is 1.
NonNumericWidthBecomesOne ==
    (last.op = "setLineWidth" /\ last.guard /\ TypeOf(last.arg) # "number")
    => self.lineWidth = Num(1)

\* C3, amended: setLineWidth(v) with a v that is not a number and a passing
\* callback leaves the stored width, and all the rest, as it was.
NonNumericWidthIsRejected ==
    [][(last'.op = "setLineWidth" /\ last'.guard /\ TypeOf(last'.arg) # "number")
        => self' = self]_vars

\* setLineWidth("abc") was called on a surface whose width is 5.
NonNumericWidthWitness ==
    /\ last = [op |-> "setLineWidth", arg |-> Str("abc"), guard |-> TRUE]
    /\ self.lineWidth = Num(5)

\* C4: setLineColor, setBg and setBorderColor with an argument that is not
\* a hex colour change nothing, at the first call and at every later one.
BadColorChangesNothing ==
    [][(last'.op \in {"setLineColor", "setBg", "setBorderColor"}
        /\ ~IsHexColor(last'.arg))
        => self' = self]_vars

\* setBorderColor("#1234567") was called, as the second call, with a
\* passing callback.
BadColorWitness ==
    /\ last = [op |-> "setBorderColor", arg |-> Str("#1234567"), guard |-> TRUE]
    /\ hist.calls = 2

\* C5: an accepted setBorderSize or setBorderColor turns the style "none"
\* into "solid" and leaves every other style as it was.
BorderStyleFlip ==
    (/\ last.guard
     /\ \/ last.op = "setBorderSize" /\ TypeOf(last.arg) = "number"
        \/ last.op = "setBorderColor" /\ IsHexColor(last.arg))
    => /\ hist.style = Str("none") => self.border.style = Str("solid")
       /\ hist.style # Str("none") => self.border.style = hist.style

\* setBorderSize was accepted while the style was "none".
BorderStyleNoneWitness ==
    /\ last = [op |-> "setBorderSize", arg |-> Num(5), guard |-> TRUE]
    /\ hist.style = Str("none")
    /\ self.border.style = Str("solid")

\* C6: with a context, stroke() has been called once for each move event
\* received while mouse.mousedown was true; the flag is false after every
\* release and as long as nothing has pressed (no mousedown or touchstart
\* event and no accepted setMouseDown call).
StrokePerPressedMove ==
    /\ self.ctx => self.strokes = hist.movesPressed
    /\ last.op \in {"mouseup", "touchend"} => ~self.mouse.mousedown
    /\ (~hist.pressed /\ ~hist.setPressed) => ~self.mouse.mousedown

\* press, move, move, release: two strokes, and the flag is false again.
StrokePerPressedMoveWitness ==
    /\ self.ctx
    /\ last.op = "mouseup"
    /\ hist.events = 4
    /\ hist.calls = 0
    /\ hist.pressed
    /\ hist.movesPressed = 2
    /\ self.strokes = 2
    /\ ~self.mouse.mousedown

\* C7, as claimed: right after an accepted setter call the matching getter
\* returns the value set (the clamped value for the stroke width).
GetterReturnsValueSet ==
    /\ (last.op = "setBg" /\ last.guard /\ IsHexColor(last.arg))
       => getBackground(self) = last.arg
    /\ (last.op = "setLineColor" /\ last.guard /\ IsHexColor(last.arg))
       => getLineColor(self) = last.arg
    /\ (last.op = "setLineWidth" /\ last.guard /\ TypeOf(last.arg) = "number"
        /\ ~IsNaN(last.arg))
       => getLineWidth(self) =
             IF last.arg.n <= 0 THEN Num(1)
             ELSE IF last.arg.n > 10 THEN Num(10) ELSE last.arg
    /\ (last.op = "setBorderSize" /\ last.guard /\ TypeOf(last.arg) = "number")
       => getBorder(self, "size") = last.arg
    /\ (last.op = "setBorderColor" /\ last.guard /\ IsHexColor(last.arg))
       => getBorder(self, "color") = last.arg
    /\ (last.op = "setBorderStyle" /\ last.guard /\ TypeOf(last.arg) = "string")
       => getBorder(self, "style") = last.arg

\* C8: after setBorderSize(b), setWidth(w) with a passing callback makes the
\* canvas w - 2*b wide and the wrapper w followed by the size unit wide;
\* setHeight does the same for the height.
ContentSize ==
    /\ (last.op = "setWidth" /\ last.guard /\ hist.borderSize # <<>>)
       => /\ self.canvasWidth = Num(last.arg.n - 2 * hist.borderSize[1].n)
          /\ self.wrapperStyle.width = Str(ToString(last.arg.n) \o self.sizeValue.s)
    /\ (last.op = "setHeight" /\ last.guard /\ hist.borderSize # <<>>)
       => /\ self.canvasHeight = Num(last.arg.n - 2 * hist.borderSize[1].n)
          /\ self.wrapperStyle.height = Str(ToString(last.arg.n) \o self.sizeValue.s)

\* setBorderSize(5), setBorderColor("#fff"), setWidth(300): 290.
ContentSizeWitness ==
    /\ last = [op |-> "setWidth", arg |-> Num(300), guard |-> TRUE]
    /\ hist.calls = 3
    /\ hist.borderSize = <<Num(5)>>
    /\ self.border.color = Str("#fff")
    /\ self.canvasWidth = Num(290)
    /\ self.wrapperStyle.width = Str("300px")

\* C9, as claimed: once constructed, the stored stroke width is a number
\* from 1 to 10, and it is 10 when the option was 15.
StrokeWidthInRange ==
    pc = "ready"
    => /\ TypeOf(self.lineWidth) = "number"
       /\ ~IsNaN(self.lineWidth)
       /\ self.lineWidth.n >= 1
       /\ self.lineWidth.n <= 10
       /\ hist.options.lineWidth = Num(15) => self.lineWidth = Num(10)

\* C10, as claimed: construction without a wrapper warns, creates neither
\* canvas nor context, and does not raise.
NoWrapperIsHarmless ==
    (pc # "new" /\ ~self.wrapper)
    => /\ ~self.threw
       /\ self.warnings >= 1
       /\ ~self.canvas
       /\ ~self.ctx


\* C11, as claimed: right after construction with an empty options object
\* the surface holds the documented defaults, border style "none" included.
DefaultsAfterConstruction ==
    (pc = "ready" /\ last.op = "new" /\ hist.options = NoOptions)
    => /\ self.width = Num(500)
       /\ self.height = Num(500)
       /\ self.sizeValue = Str("px")
       /\ self.bg = Str("#cccccc")
       /\ self.lineColor = Str("#000000")
       /\ self.lineWidth = Num(1)
       /\ self.mouse.cursor = Str("crosshair")
       /\ self.border.size = Num(0)
       /\ self.border.color = Str("none")
       /\ self.border.style = Str("none")


\* C12, as claimed: the callback of a setter is given the value that
\* construction or the latest accepted call of that setter established for
\* its property: the second setWidth is given the width the first one set.
GuardSeesCurrentValue ==
    [][/\ last'.op = "setWidth" => hist'.seen = hist.est.width
       /\ last'.op = "setHeight" => hist'.seen = hist.est.height
       /\ last'.op = "setBg" => hist'.seen = hist.est.bg
       /\ last'.op = "setLineColor" => hist'.seen = self.lineColor
       /\ last'.op = "setLineWidth" => hist'.seen = self.lineWidth
       /\ last'.op = "setMouseCursor" => hist'.seen = self.mouse.cursor
       /\ last'.op = "setBorderSize" => hist'.seen = self.border.size
       /\ last'.op = "setBorderColor" => hist'.seen = self.border.color
       /\ last'.op = "setBorderStyle" => hist'.seen = self.border.style
       /\ last'.op = "setMouseDown" => hist'.seen = Bool(self.mouse.mousedown)]_vars


\* C13: getImageB64 asks for "image/png" or "image/jpeg" when given "png" or
\* "jpeg", for "image/png" when given another string or nothing, and returns
\* undefined, asking for nothing, without a canvas, without a context and
\* when given a value that is not a string.
ExportFormat ==
    last.op = "getImageB64"
    => LET f == last.arg
       IN  IF ~self.canvas \/ ~self.ctx \/ f.t \notin {"string", "undefined"}
           THEN hist.image = [type |-> Undefined, returned |-> Undefined]
           ELSE /\ hist.image.type =
                      IF f = Str("jpeg") THEN Str("image/jpeg") ELSE Str("image/png")
                /\ hist.image.returned.t = "string"

\* getImageB64("gif"), after a resize, on a surface with a context: PNG.
ExportFormatWitness ==
    /\ self.ctx
    /\ hist.calls = 2
    /\ hist.est.width = Num(640)
    /\ last = [op |-> "getImageB64", arg |-> Str("gif"), guard |-> TRUE]
    /\ hist.image.type = Str("image/png")
    /\ hist.image.returned = Str("data:image/png;base64,")


\* C14: on a surface with a canvas the stored cursor is "default",
\* "crosshair" or "pointer" in every state, also right after construction
\* with another cursor option, and setMouseCursor with a passing callback
\* and a value outside that set stores "crosshair".
CursorInSet ==
    /\ (pc = "ready" /\ self.canvas)
       => self.mouse.cursor \in {Str("default"), Str("crosshair"), Str("pointer")}
    /\ (/\ last.op = "setMouseCursor"
        /\ last.guard
        /\ self.canvas
        /\ last.arg \notin {Str("default"), Str("crosshair"), Str("pointer")})
       => self.mouse.cursor = Str("crosshair")

\* Constructed with cursor "wait", set to "pointer", then setMouseCursor
\* ("wait"): the callback was given "pointer" and "crosshair" is stored.
CursorInSetWitness ==
    /\ hist.options.cursor = Str("wait")
    /\ hist.calls = 2
    /\ last = [op |-> "setMouseCursor", arg |-> Str("wait"), guard |-> TRUE]
    /\ hist.seen = Str("pointer")
    /\ self.mouse.cursor = Str("crosshair")


\* C15: drawCallback has run once for each move received while pressed,
\* with a context and after addCallbackToDraw, each time after the stroke of
\* that move, and never for another event.
DrawCallbackPerSegment ==
    /\ self.callbacks = hist.drawsRegistered
    /\ self.callbacks > 0 => self.callbackSaw = self.strokes
    /\ ~self.ctx => self.callbacks = 0

\* press, move, addCallbackToDraw, move, release: two strokes, one run of
\* the callback.
DrawCallbackWitness ==
    /\ self.drawCallback
    /\ last.op = "mouseup"
    /\ hist.events = 4
    /\ hist.movesPressed = 2
    /\ hist.drawsRegistered = 1
    /\ self.strokes = 2
    /\ self.callbacks = 1


\* C16, as claimed: clearAll on a surface with a context erases a rectangle
\* that covers the canvas as it is now, also after setWidth or setHeight has
\* made it larger, and changes nothing else.
ClearAllCoversCanvas ==
    [][last'.op = "clearAll"
       => /\ self' = [self EXCEPT !.cleared = self'.cleared]
          /\ (self.ctx /\ ~IsNaN(self.canvasWidth) /\ ~IsNaN(self.canvasHeight))
             => /\ self'.cleared # <<>>
                /\ JsLe(self.canvasWidth, self'.cleared[1].w)
                /\ JsLe(self.canvasHeight, self'.cleared[1].h)]_vars


\* C17: a surface whose construction got no context never gets one, and
\* whatever events and calls follow it has stroked, filled and erased
\* nothing, has run no drawCallback, and getImageB64 returns undefined.
NoContextNoDrawing ==
    /\ []((pc = "ready" /\ ~self.ctx)
          => /\ self.strokes = 0
             /\ self.fills = 0
             /\ self.callbacks = 0
             /\ self.segment = <<>>
             /\ self.path = <<>>
             /\ self.cleared = <<>>
             /\ last.op = "getImageB64" => hist.image.returned = Undefined)
    /\ [][(pc = "ready" /\ ~self.ctx) => ~self'.ctx]_vars

\* Without a context: addCallbackToDraw, a press, then a move while pressed.
NoContextWitness ==
    /\ pc = "ready"
    /\ ~self.ctx
    /\ self.drawCallback
    /\ self.mouse.mousedown
    /\ hist.pressed
    /\ last.op = "mousemove"
    /\ self.strokes = 0


\* C18, as claimed: a segment stroked on a move (a path of two points) is
\* stroked with the colour and the width stored at that move, a positive
\* number, so that a setLineColor or setLineWidth between two moves shows on
\* the next segment.
SegmentUsesStoredStyle ==
    (/\ last.op \in {"mousemove", "touchmove"}
     /\ self.ctx
     /\ self.mouse.mousedown
     /\ self.segment # <<>>
     /\ Len(self.segment[1].path) >= 2
     /\ JsGt(self.lineWidth, Num(0)))
    => /\ self.segment[1].style = self.lineColor
       /\ self.segment[1].width = self.lineWidth


\* C19, as claimed: after mouseup, touchend or mouseleave, from any state,
\* the stored coordinates are those of the event, mouse.mousedown is false
\* and the path is empty.
ReleaseUpdatesAndResets ==
    last.op \in {"mouseup", "touchend", "mouseleave"}
    => /\ <<self.mouse.x, self.mouse.y>> = hist.point
       /\ ~self.mouse.mousedown
       /\ self.path = <<>>

\* C20: mousedown and touchstart store the coordinates of the event and set
\* mouse.mousedown; touchstart leaves the path empty, mousedown leaves it
\* as it was.
PressSetsFlagAndCoords ==
    [][/\ last'.op \in {"mousedown", "touchstart"}
          => /\ <<self'.mouse.x, self'.mouse.y>> = hist'.point
             /\ self'.mouse.mousedown
       /\ last'.op = "touchstart" => self'.path = <<>>
       /\ last'.op = "mousedown" => self'.path = self.path]_vars

\* press, move to (1,2), press again at (3,4) without a release: the path
\* still starts at (1,2).
PressWitness ==
    /\ self.ctx
    /\ last.op = "mousedown"
    /\ hist.events = 3
    /\ self.path = << <<1, 2>> >>
    /\ hist.point = <<3, 4>>
    /\ self.mouse.x = 3
    /\ self.mouse.mousedown


\* C21, as claimed: the stored border size is a non-negative integer in
\* every state of a constructed surface, and setBorderSize with a negative
\* number leaves the stored size as it was.
BorderSizeNonNegative ==
    [][/\ pc' = "ready"
          => /\ TypeOf(self'.border.size) = "number"
             /\ ~IsNaN(self'.border.size)
             /\ self'.border.size.n >= 0
       /\ (/\ last'.op = "setBorderSize"
           /\ TypeOf(last'.arg) = "number"
           /\ ~IsNaN(last'.arg)
           /\ last'.arg.n < 0)
          => self'.border.size = self.border.size]_vars


\* C22, as claimed: on a constructed surface, whatever the options were,
\* the stored background and stroke colours are hex colours and the stored
\* border colour is a hex colour or "none".
StoredColorsAreHex ==
    pc = "ready"
    => /\ IsHexColor(self.bg)
       /\ IsHexColor(self.lineColor)
       /\ self.border.color = Str("none") \/ IsHexColor(self.border.color)


\* C23, as claimed: a segment stroked on a move (a path of two points)
\* starts at the coordinates stored before that move, those of the press or
\* move event just before it, so that it never starts at a point of an
\* earlier gesture.
SegmentStartsAtLastPoint ==
    [][(/\ last'.op \in {"mousemove", "touchmove"}
        /\ self'.strokes = self.strokes + 1
        /\ Len(self'.segment[1].path) >= 2)
       => self'.segment[1].path[1] = <<self.mouse.x, self.mouse.y>>]_vars


\* C24: a mousemove or touchmove received while mouse.mousedown is false
\* stores the coordinates of the event and changes nothing else: no stroke,
\* fill or callback, and the path, the flag and the styles stay as they were.
MoveWhileUpOnlyStoresCoords ==
    [][(last'.op \in {"mousemove", "touchmove"} /\ ~self.mouse.mousedown)
       => self' = [self EXCEPT !.mouse.x = hist'.point[1],
                               !.mouse.y = hist'.point[2]]]_vars

\* press and move at (1,2), setMouseDown(false), then a move to (3,4) while
\* up: the path still holds (1,2) and one stroke has been made.
MoveWhileUpWitness ==
    /\ self.ctx
    /\ last.op = "mousemove"
    /\ ~self.mouse.mousedown
    /\ hist.calls = 1
    /\ hist.events = 3
    /\ self.strokes = 1
    /\ self.path = << <<1, 2>> >>
    /\ self.mouse.x = 3
    /\ self.mouse.y = 4


\* C25: setMouseDown with a passing callback stores a boolean argument,
\* inverts the flag when the argument is undefined (twice in a row gives the
\* flag back), and leaves the flag as it was for any other argument.
SetMouseDownSetsOrToggles ==
    [][(last'.op = "setMouseDown" /\ last'.guard)
       => /\ self'.mouse.mousedown =
                IF last'.arg = Bool(TRUE) THEN TRUE
                ELSE IF last'.arg = Bool(FALSE) THEN FALSE
                ELSE IF last'.arg = Undefined THEN ~self.mouse.mousedown
                ELSE self.mouse.mousedown
          /\ self' = [self EXCEPT !.mouse.mousedown = self'.mouse.mousedown]]_vars

\* The second of two calls: setMouseDown() was given true by its callback
\* and has put the flag back to false, the value of a new surface.
SetMouseDownToggleWitness ==
    /\ hist.calls = 2
    /\ last = [op |-> "setMouseDown", arg |-> Undefined, guard |-> TRUE]
    /\ hist.seen = Bool(TRUE)
    /\ ~self.mouse.mousedown


\* C26: an accepted setLineColor on a surface with a context empties the
\* path, so that the move that follows it while pressed strokes a path of a
\* single point; setLineWidth and a setLineColor that is not accepted leave
\* the path as it was.
LineColorResetsPath ==
    [][/\ (/\ last'.op = "setLineColor"
           /\ last'.guard
           /\ IsHexColor(last'.arg)
           /\ self.ctx)
          => self'.path = <<>>
       /\ (\/ last'.op = "setLineWidth"
           \/ /\ last'.op = "setLineColor"
              /\ ~(last'.guard /\ IsHexColor(last'.arg)))
          => self'.path = self.path
       /\ (/\ last.op = "setLineColor"
           /\ last.guard
           /\ IsHexColor(last.arg)
           /\ last'.op \in {"mousemove", "touchmove"}
           /\ self.ctx
           /\ self.mouse.mousedown)
          => /\ self'.strokes = self.strokes + 1
             /\ Len(self'.segment[1].path) = 1]_vars

\* press, move, setLineColor("#fff"), move: the second stroke is of a
\* single point.
LineColorResetsPathWitness ==
    /\ self.ctx
    /\ last.op = "mousemove"
    /\ self.mouse.mousedown
    /\ hist.events = 3
    /\ hist.calls = 1
    /\ self.lineColor = Str("#fff")
    /\ self.strokes = 2
    /\ Len(self.segment[1].path) = 1

====
